---- MODULE Spec2Model ----
(***************************************************************************)
(* The cereal pipeline of _versions/v3_pipeline.py: four ops               *)
(* (download_latest_cereals, preprocess_cereals,                           *)
(* find_highest_protein_cereal, display_highest_protein_cereal) and the    *)
(* job best_preworkout_cereal_pipeline that chains them.                   *)
(*                                                                         *)
(* A DataFrame is a record [columns, rows]: columns is the sequence of     *)
(* header labels (labels may repeat, as in pandas), rows the sequence of   *)
(* rows, each row the sequence of its cells in column order.               *)
(*                                                                         *)
(* Spec    : one run of the job.                                           *)
(* SpecOps : the ops invoked directly on a table, as                       *)
(*           test_find_highest_protein_cereal does.                        *)
(***************************************************************************)
EXTENDS Integers, Sequences, FiniteSets, TLC

\* ---------------------------------------------------------------- bounds
MaxCols == 3
MaxRows == 2
MaxCalls == 2

\* ------------------------------------------------------- header strings
\* Header labels are ASCII strings.  TLA+ has no operations on the
\* characters of a string, so str.lower / str.upper are given by their
\* graph on the labels that occur.
LowerHeaders == {"name", "brand", "protein", "calories"}

\* the labels a table under test is built from
Headers ==
    {"name", "NAME", "brand", "BRAND", "protein", "PROTEIN", "calories", "CALORIES"}

\* labels that read `name` / `brand` / ... when case is ignored
NameLike == {"name", "NAME"}
BrandLike == {"brand", "BRAND"}
ProteinLike == {"protein", "PROTEIN"}
CaloriesLike == {"calories", "CALORIES"}

Range(s) == {s[i] : i \in DOMAIN s}

Count(s, x) == Cardinality({i \in DOMAIN s : s[i] = x})

Last(s) == s[Len(s)]

\* ------------------------------------------------------------ str.lower
\* variant: str.swapcase() in place of str.lower()
LowerSwapsCase(h) ==
    CASE h = "NAME" -> "name" [] h = "name" -> "NAME"
      [] h = "BRAND" -> "brand" [] h = "brand" -> "BRAND"
      [] h = "PROTEIN" -> "protein" [] h = "protein" -> "PROTEIN"
      [] h = "CALORIES" -> "calories" [] h = "calories" -> "CALORIES"
      [] OTHER -> h

\* variant: the headers are left as they are
LowerIsIdentity(h) == h

\* str.lower() of one label
Lower(h) ==
    CASE h = "NAME" -> "name"
      [] h = "BRAND" -> "brand"
      [] h = "PROTEIN" -> "protein"
      [] h = "CALORIES" -> "calories"
      [] OTHER -> h

\* str.upper() of one label
Upper(h) ==
    CASE h = "name" -> "NAME"
      [] h = "brand" -> "BRAND"
      [] h = "protein" -> "PROTEIN"
      [] h = "calories" -> "CALORIES"
      [] OTHER -> h

\* df.columns.str.lower()
str_lower(columns) == [i \in DOMAIN columns |-> Lower(columns[i])]

\* df.columns.str.upper()
str_upper(columns) == [i \in DOMAIN columns |-> Upper(columns[i])]

\* df.rename(mapping, axis=1), for a one-entry mapping {old: new}: a copy in
\* which every column labelled old is labelled new
rename(df, old, new) ==
    [df EXCEPT !.columns =
        [i \in DOMAIN df.columns |->
            IF df.columns[i] = old THEN new ELSE df.columns[i]]]

\* ---------------------------------------------------------------- values
NoTable == [none |-> TRUE]
NoName == "(no value)"

\* ------------------------------------------------------ preprocess_cereals
\* The result of a call: `input` is the caller's DataFrame object after the
\* call (line 13 assigns its columns in place), `ret` the returned DataFrame,
\* `raised` the exception that left the op ("none": it returned).
\* variant: the else branch of line 18 is missing
preprocess_NoRaise(df) ==
    LET lowered == [df EXCEPT !.columns = str_lower(df.columns)]
    IN  IF "name" \notin Range(lowered.columns) /\ "brand" \in Range(lowered.columns)
        THEN [input |-> lowered, ret |-> rename(lowered, "brand", "name"), raised |-> "none"]
        ELSE [input |-> lowered, ret |-> lowered, raised |-> "none"]

\* variant: rename(..., inplace=True), the caller's object is renamed too
preprocess_RenamesInPlace(df) ==
    LET lowered == [df EXCEPT !.columns = str_lower(df.columns)]
        renamed == rename(lowered, "brand", "name")
    IN  IF "name" \notin Range(lowered.columns)
        THEN IF "brand" \in Range(lowered.columns)
             THEN [input |-> renamed, ret |-> renamed, raised |-> "none"]
             ELSE [input |-> lowered, ret |-> NoTable, raised |-> "ValueError"]
        ELSE [input |-> lowered, ret |-> lowered, raised |-> "none"]

preprocess_cereals(df) ==
    LET lowered == [df EXCEPT !.columns = str_lower(df.columns)]
    IN  IF "name" \notin Range(lowered.columns)
        THEN IF "brand" \in Range(lowered.columns)
             THEN [input |-> lowered,
                   ret |-> rename(lowered, "brand", "name"),
                   raised |-> "none"]
             ELSE [input |-> lowered, ret |-> NoTable, raised |-> "ValueError"]
        ELSE [input |-> lowered, ret |-> lowered, raised |-> "none"]

\* --------------------------------------------- find_highest_protein_cereal
\* position of the column labelled `label` (the label occurs once)
ColIndex(columns, label) == CHOOSE i \in DOMAIN columns : columns[i] = label

\* variant: the second key ascending, ascending=[False, True]
PrecedesCaloriesAscending(k1, k2) ==
    k1[1] > k2[1] \/ (k1[1] = k2[1] /\ k1[2] < k2[2])

\* ascending=False on ["protein", "calories"]: the key k1 sorts strictly
\* before the key k2
Precedes(k1, k2) ==
    k1[1] > k2[1] \/ (k1[1] = k2[1] /\ k1[2] > k2[2])

\* insert row x, which came after every row of the sorted s in the frame,
\* behind the rows it does not strictly precede (the sort on several keys
\* is stable)
RECURSIVE InsertRow(_, _, _, _)
InsertRow(s, x, p, c) ==
    IF s = <<>>
    THEN <<x>>
    ELSE IF Precedes(<<x[p], x[c]>>, <<Head(s)[p], Head(s)[c]>>)
         THEN <<x>> \o s
         ELSE <<Head(s)>> \o InsertRow(Tail(s), x, p, c)

\* the rows of df.sort_values(["protein", "calories"], ascending=False);
\* p and c are the positions of the two key columns
RECURSIVE SortRows(_, _, _)
SortRows(rows, p, c) ==
    IF rows = <<>>
    THEN <<>>
    ELSE InsertRow(SortRows(SubSeq(rows, 1, Len(rows) - 1), p, c), Last(rows), p, c)

\* df.sort_values(["protein", "calories"], ascending=False): each key is
\* looked up in turn; a missing label is a KeyError, a repeated one a
\* ValueError ("The column label ... is not unique")
sort_values(df) ==
    IF Count(df.columns, "protein") = 0 THEN [raised |-> "KeyError", ret |-> NoTable]
    ELSE IF Count(df.columns, "protein") > 1 THEN [raised |-> "ValueError", ret |-> NoTable]
    ELSE IF Count(df.columns, "calories") = 0 THEN [raised |-> "KeyError", ret |-> NoTable]
    ELSE IF Count(df.columns, "calories") > 1 THEN [raised |-> "ValueError", ret |-> NoTable]
    ELSE [raised |-> "none",
          ret |-> [df EXCEPT !.rows = SortRows(df.rows,
                                               ColIndex(df.columns, "protein"),
                                               ColIndex(df.columns, "calories"))]]

\* variant: every failure of the op is raised as a ValueError
find_OneErrorKind(df) ==
    LET sorted == sort_values(df)
    IN  IF sorted.raised # "none" \/ sorted.ret.rows = <<>>
           \/ Count(df.columns, "name") # 1
        THEN [raised |-> "ValueError", ret |-> NoName]
        ELSE [raised |-> "none",
              ret |-> sorted.ret.rows[1][ColIndex(df.columns, "name")]]

\* The op: sort, take the first row (.iloc[0]: IndexError on an empty
\* frame), read its `name` (KeyError when no column has that label).  With
\* several columns labelled `name` the lookup yields a Series, which the
\* op's declared output type `str` rejects.
find_highest_protein_cereal(df) ==
    LET sorted_df == sort_values(df)
    IN  IF sorted_df.raised # "none"
        THEN [raised |-> sorted_df.raised, ret |-> NoName]
        ELSE IF sorted_df.ret.rows = <<>>
        THEN [raised |-> "IndexError", ret |-> NoName]
        ELSE IF Count(df.columns, "name") = 0
        THEN [raised |-> "KeyError", ret |-> NoName]
        ELSE IF Count(df.columns, "name") > 1
        THEN [raised |-> "DagsterTypeCheckDidNotPass", ret |-> NoName]
        ELSE [raised |-> "none",
              ret |-> sorted_df.ret.rows[1][ColIndex(df.columns, "name")]]

\* f"Most protein-rich cereal: {name}"
LogLine(n) == <<"Most protein-rich cereal: ", n>>

\* ------------------------------------------------------------ the tables
\* The tables the ops are run on.  Their labels are pairwise distinct, as
\* those of a frame from pd.read_csv or from pd.DataFrame(dict) are.  A row
\* is built from a protein and a calories value; every column reads the row's
\* value for what its label says when case is ignored, and the name of row i
\* is RowName(i).
ProteinValues == {1, 4}
CalorieValues == {50, 70}

RowName(i) ==
    CASE i = 1 -> "Bran"
      [] i = 2 -> "Bran - no added sugars"
      [] OTHER -> "Honey-comb"

Cell(h, i, rec) ==
    IF h \in NameLike \cup BrandLike THEN RowName(i)
    ELSE IF h \in ProteinLike THEN rec.protein
    ELSE rec.calories

MakeTable(cols, recs) ==
    [columns |-> cols,
     rows |-> [i \in DOMAIN recs |-> [j \in DOMAIN cols |-> Cell(cols[j], i, recs[i])]]]

RowRecs == [protein : ProteinValues, calories : CalorieValues]

Distinct(s) == \A i, j \in DOMAIN s : i # j => s[i] # s[j]

ColumnLists == {cols \in UNION {[1..k -> Headers] : k \in 0..MaxCols} : Distinct(cols)}

Tables ==
    {MakeTable(cols, recs) :
        cols \in ColumnLists,
        recs \in UNION {[1..r -> RowRecs] : r \in 0..MaxRows}}

\* the DataFrame of test_find_highest_protein_cereal
ScenarioA ==
    [columns |-> <<"name", "protein", "calories">>,
     rows |-> << <<"Bran", 4, 70>>,
                 <<"Bran - no added sugars", 4, 50>>,
                 <<"Honey-comb", 1, 110>> >>]

\* ----------------------------------------------------------------- state
VARIABLES
    pc,      \* where the run stands
    csv,     \* the table pd.read_csv yields (the test's fixture), as built
    df,      \* the DataFrame the caller holds in `df`
    before,  \* the argument of the latest preprocess_cereals call, before it
    arg,     \* the same DataFrame object after that call
    name,    \* the value find_highest_protein_cereal returned
    raised,  \* the exception that ended the run ("none": none so far)
    log,     \* the lines written to the dagster logger
    steps    \* the ops invoked so far, in order

vars == <<pc, csv, df, before, arg, name, raised, log, steps>>

\* before the job starts: nothing is loaded yet
Init ==
    /\ pc = "start"
    /\ csv \in Tables \cup {ScenarioA}
    /\ df = NoTable
    /\ before = NoTable
    /\ arg = NoTable
    /\ name = NoName
    /\ raised = "none"
    /\ log = <<>>
    /\ steps = <<>>

\* a test that calls the ops itself holds the table in `df`
InitOps ==
    /\ pc = "start"
    /\ csv \in Tables \cup {ScenarioA}
    /\ df = csv
    /\ before = NoTable
    /\ arg = NoTable
    /\ name = NoName
    /\ raised = "none"
    /\ log = <<>>
    /\ steps = <<>>

\* ------------------------------------------------------------------- ops
\* df = pd.read_csv(url); return df.  The fetch may fail.
download_latest_cereals ==
    /\ pc = "start"
    /\ \E fetched \in BOOLEAN :
        /\ pc' = IF fetched THEN "downloaded" ELSE "failed"
        /\ df' = IF fetched THEN csv ELSE df
        /\ raised' = IF fetched THEN "none" ELSE "IOError"
    /\ steps' = Append(steps, "download_latest_cereals")
    /\ UNCHANGED <<csv, before, arg, name, log>>

\* df = preprocess_cereals(df)
Preprocess ==
    LET r == preprocess_cereals(df)
    IN  /\ before' = df
        /\ arg' = r.input
        /\ df' = r.ret
        /\ raised' = r.raised
        /\ pc' = IF r.raised = "none" THEN "preprocessed" ELSE "failed"
        /\ steps' = Append(steps, "preprocess_cereals")
        /\ UNCHANGED <<csv, name, log>>

\* name = find_highest_protein_cereal(df)
Find ==
    LET r == find_highest_protein_cereal(df)
    IN  /\ name' = r.ret
        /\ raised' = r.raised
        /\ pc' = IF r.raised = "none" THEN "found" ELSE "failed"
        /\ steps' = Append(steps, "find_highest_protein_cereal")
        /\ UNCHANGED <<csv, df, before, arg, log>>

\* variant: the op writes no line
DisplayLogsNothing ==
    /\ pc = "found"
    /\ pc' = "displayed"
    /\ steps' = Append(steps, "display_highest_protein_cereal")
    /\ UNCHANGED <<csv, df, before, arg, name, raised, log>>

\* logger.info(f"Most protein-rich cereal: {name}")
display_highest_protein_cereal ==
    /\ pc = "found"
    /\ log' = Append(log, LogLine(name))
    /\ pc' = "displayed"
    /\ steps' = Append(steps, "display_highest_protein_cereal")
    /\ UNCHANGED <<csv, df, before, arg, name, raised>>

\* ------------------------------------------------------------- the job
\* best_preworkout_cereal_pipeline: each op runs once its input is there
JobPreprocess == pc = "downloaded" /\ Preprocess

JobFind == pc = "preprocessed" /\ Find

Next ==
    \/ download_latest_cereals
    \/ JobPreprocess
    \/ JobFind
    \/ display_highest_protein_cereal

Spec == Init /\ [][Next]_vars

\* ------------------------------------------------- the ops, called directly
OpPreprocess ==
    /\ pc \in {"start", "preprocessed"}
    /\ Count(steps, "preprocess_cereals") < MaxCalls
    /\ Preprocess

OpFind ==
    /\ pc \in {"start", "preprocessed"}
    /\ Find

NextOps == OpPreprocess \/ OpFind

SpecOps == InitOps /\ [][NextOps]_vars

\* =============================================================== properties
LastStep == IF steps = <<>> THEN "(none)" ELSE Last(steps)

HasOne(t, label) == Count(t.columns, label) = 1

Lacks(t, label) == Count(t.columns, label) = 0

\* cell of row i in the column labelled `label` (the label occurs once)
CellOf(t, i, label) == t.rows[i][ColIndex(t.columns, label)]

\* a non-empty table with a `name`, a `protein` and a `calories` column
Selectable(t) ==
    /\ t.rows # <<>>
    /\ HasOne(t, "name") /\ HasOne(t, "protein") /\ HasOne(t, "calories")

\* rows i and j agree on protein and on calories
Tied(t, i, j) ==
    /\ CellOf(t, i, "protein") = CellOf(t, j, "protein")
    /\ CellOf(t, i, "calories") = CellOf(t, j, "calories")

\* the row with the maximum protein; among those, the maximum calories;
\* among those, the first
BestRow(t) ==
    CHOOSE i \in DOMAIN t.rows :
        \A j \in DOMAIN t.rows :
            \/ CellOf(t, j, "protein") < CellOf(t, i, "protein")
            \/ /\ CellOf(t, j, "protein") = CellOf(t, i, "protein")
               /\ CellOf(t, j, "calories") < CellOf(t, i, "calories")
            \/ Tied(t, i, j) /\ i <= j

MaxProteinRows(t) ==
    {i \in DOMAIN t.rows :
        \A j \in DOMAIN t.rows : CellOf(t, j, "protein") <= CellOf(t, i, "protein")}

\* C2: among the rows tied for the highest protein,
\* find_highest_protein_cereal returns the name of one with the lowest
\* calories; on the table of test_find_highest_protein_cereal it returns
\* "Bran - no added sugars".
C2_TiedRowWithLowestCaloriesWins ==
    (LastStep = "find_highest_protein_cereal" /\ Selectable(df))
        => /\ \E i \in MaxProteinRows(df) :
                /\ \A j \in MaxProteinRows(df) :
                      CellOf(df, i, "calories") <= CellOf(df, j, "calories")
                /\ name = CellOf(df, i, "name")
           /\ (df = ScenarioA => name = "Bran - no added sugars")

\* C3: a table returned by preprocess_cereals has lowercase headers only and
\* exactly one column named `name`.
C3_ReturnedTableHasOneNameColumn ==
    (LastStep = "preprocess_cereals" /\ raised = "none")
        => /\ \A i \in DOMAIN df.columns : df.columns[i] \in LowerHeaders
           /\ Count(df.columns, "name") = 1

\* no header of the table reads `name` or `brand` when case is ignored
NoIdentifierColumn(t) ==
    \A i \in DOMAIN t.columns : t.columns[i] \notin NameLike \cup BrandLike

\* C4: preprocess_cereals raises its ValueError exactly when the table has
\* neither a `name` nor a `brand` column once case is ignored; otherwise it
\* returns a table and raises nothing.
C4_RaisesIffNoNameAndNoBrand ==
    LastStep = "preprocess_cereals"
        => /\ raised = "ValueError" <=> NoIdentifierColumn(before)
           /\ raised # "ValueError" => (raised = "none" /\ df # NoTable /\ pc = "preprocessed")
           /\ raised = "ValueError" => (df = NoTable /\ pc = "failed")

\* preprocess_cereals has raised on a table that has columns, none of them
\* an identifier
C4_Witness ==
    /\ LastStep = "preprocess_cereals"
    /\ raised = "ValueError"
    /\ before.columns # <<>>
    /\ NoIdentifierColumn(before)

\* the table is empty or lacks one of the columns the selector reads
Unselectable(t) ==
    t.rows = <<>> \/ Lacks(t, "protein") \/ Lacks(t, "calories") \/ Lacks(t, "name")

C6_PreprocessIsIdempotent ==
    (LastStep = "preprocess_cereals" /\ Len(steps) >= 2)
        => (raised = "none" /\ df = before)

\* the second call has returned, the first having changed the headers
C6_Witness ==
    /\ steps = <<"preprocess_cereals", "preprocess_cereals">>
    /\ raised = "none"
    /\ df.columns # csv.columns
    /\ df.rows # <<>>

\* C7: for a table T with a `name` column and no `brand` column,
\* preprocess_cereals of T with `name` relabelled `brand` equals
\* preprocess_cereals of T, and the selector answers the same on both.
C7_BrandVersionNormalizesTheSame ==
    (steps = <<"preprocess_cereals">> /\ HasOne(before, "name") /\ Lacks(before, "brand"))
        => LET other == preprocess_cereals(rename(before, "name", "brand"))
           IN  /\ raised = "none"
               /\ other.raised = "none"
               /\ other.ret = df
               /\ find_highest_protein_cereal(other.ret) = find_highest_protein_cereal(df)

\* the table with every header uppercased
Uppercased(t) == [t EXCEPT !.columns = str_upper(t.columns)]

\* C8: when the job succeeds on a table, it succeeds on the table with all
\* headers uppercased and selects the same name.
C8_UppercaseHeadersSelectTheSame ==
    pc = "displayed"
        => LET normal == preprocess_cereals(Uppercased(csv))
           IN  /\ normal.raised = "none"
               /\ find_highest_protein_cereal(normal.ret).raised = "none"
               /\ find_highest_protein_cereal(normal.ret).ret = name

\* the job has succeeded on a table whose headers uppercasing changes
C8_Witness ==
    /\ pc = "displayed"
    /\ name # NoName
    /\ Uppercased(csv).columns # csv.columns
    /\ "brand" \in Range(csv.columns)

JobOrder ==
    <<"download_latest_cereals", "preprocess_cereals",
      "find_highest_protein_cereal", "display_highest_protein_cereal">>

IsPrefix(s, t) == Len(s) <= Len(t) /\ s = SubSeq(t, 1, Len(s))

\* the run is over: an op has raised, or the last op of the job has run
JobEnded == pc \in {"failed", "displayed"}

JobStateOk ==
    /\ IsPrefix(steps, JobOrder)
    /\ raised # "none" <=> pc = "failed"
    /\ Len(log) <= 1
    /\ log # <<>> => log = <<LogLine(name)>>
    /\ pc \in {"found", "displayed"}
          => /\ find_highest_protein_cereal(df).raised = "none"
             /\ name = find_highest_protein_cereal(df).ret
    /\ ~JobEnded => log = <<>>
    /\ JobEnded => (Len(log) = 1 <=> (Len(steps) >= 3 /\ raised = "none"))

\* C9: the job runs download, preprocess, find, display in this order, each
\* at most once; once an op has failed the run is over in error and no op
\* runs after it; the line "Most protein-rich cereal: <name>" is logged at
\* most once, with the selector's result, and a run that is over has logged
\* it exactly when the first three ops succeeded.
C9_JobRunsOpsInOrderAndLogsOnce ==
    /\ []JobStateOk
    /\ [][~JobEnded]_vars

\* the job has run to its end and logged the selected name
C9_Witness ==
    /\ steps = JobOrder
    /\ pc = "displayed"
    /\ log = <<LogLine(name)>>
    /\ name # NoName
    /\ raised = "none"

\* the two labels are the same when case is ignored
SameIgnoringCase(a, b) ==
    \E S \in {NameLike, BrandLike, ProteinLike, CaloriesLike} : a \in S /\ b \in S

\* C10: after a preprocess_cereals call, whether it returned or raised, the
\* caller's table has its headers lowercased in place (`brand` stays
\* `brand`) and the returned table differs from it at most in `brand` being
\* `name`; both keep the number and order of columns, the rows and cells.
C10_OnlyHeadersChange ==
    LastStep = "preprocess_cereals"
        => /\ Len(arg.columns) = Len(before.columns)
           /\ \A i \in DOMAIN arg.columns :
                 /\ arg.columns[i] \in LowerHeaders
                 /\ SameIgnoringCase(arg.columns[i], before.columns[i])
           /\ arg.rows = before.rows
           /\ raised = "none"
                => /\ Len(df.columns) = Len(before.columns)
                   /\ \A i \in DOMAIN df.columns :
                         \/ df.columns[i] = arg.columns[i]
                         \/ arg.columns[i] = "brand" /\ df.columns[i] = "name"
                   /\ df.rows = before.rows

\* the op has returned a renamed copy of a table that has rows
C10_Witness ==
    /\ LastStep = "preprocess_cereals"
    /\ raised = "none"
    /\ "BRAND" \in Range(before.columns)
    /\ "brand" \in Range(arg.columns)
    /\ "name" \in Range(df.columns)
    /\ "name" \notin Range(arg.columns)
    /\ before.rows # <<>>

====
